---- MODULE Spec2Model ----
(***************************************************************************)
(* Model of StrategicAutomaton (strategic_field_visualizer.py): the        *)
(* constructor with its four initial conditions and three payoff tables,   *)
(* the fitness computation and the "best takes over" generation update.    *)
(*                                                                         *)
(* Numbers.  Payoffs and fitness values are kept in units of 1/20, so that *)
(* 3.1, 1.75, -0.5, 2.5 and 1.5 are the integers 62, 35, -10, 50 and 30.   *)
(* All payoffs but T = 3.1 are exact binary floats; sums of 3.1 and 1 in   *)
(* the scan order differ from the exact sum by at most one ulp, and only   *)
(* defectors carry such sums, so every comparison between candidates of    *)
(* different strategies comes out as in exact arithmetic.                  *)
(* The cooperator density is kept in tenths (5 is 0.5).                    *)
(***************************************************************************)
EXTENDS Integers, Sequences, FiniteSets, TLC

VARIABLES
    args,            \* the arguments of the constructor call
    status,          \* "new" (call not yet made), "constructed", "failed"
    err,             \* the exception that ended __init__, or "none"
    attrs,           \* the attributes __init__ has set on the object
    allocated,       \* __init__ has had numpy allocate a grid array
    grid_size,       \* self.grid_size
    game_type,       \* self.game_type
    payoffs,         \* self.payoffs
    grid,            \* self.grid
    pc,              \* where step() stands: "idle", "loop", "assign"
    y, x,            \* the loop variables of step(), lines 158-159
    fitness_grid,    \* the local fitness_grid of the running step()
    next_grid,       \* the local next_grid of the running step()
    fitness_reads,   \* per cell, the cells _get_fitness read as neighbours
    old_grid,        \* the grid as it was when the running or last step() began
    last_op,         \* the last operation that returned
    gen,             \* step() calls this engine has completed (two-engine runs)
    twin_grid,       \* self.grid of a second engine built by the same call
    twin_gen,        \* step() calls the second engine has completed
    shift            \* (rows, columns) the second engine's starting grid was rolled by

vars == <<args, status, err, attrs, allocated, grid_size, game_type, payoffs, grid,
          pc, y, x, fitness_grid, next_grid, fitness_reads, old_grid, last_op,
          gen, twin_grid, twin_gen, shift>>

\* The second engine and the generation counters, used by the two-engine
\* specification only.
twinvars == <<gen, twin_grid, twin_gen, shift>>

\* The position and the locals of a running step().
stepvars == <<pc, y, x, fitness_grid, next_grid, fitness_reads>>

COOPERATE == 0
DEFECT == 1

\* ---------------------------------------------------------------- bounds
\* Largest side the random initial condition is called with.
MaxRandomN == 3
\* Random draws are enumerated up to this many cells of the rarer strategy.
MaxMinority == 2
\* Largest side the constructor is called with.
MaxN == 11
\* Largest side of an engine whose step() is called.
MaxStepN == 6
\* Largest side of the random draws in the two-engine runs.
MaxTwinN == 2
\* step() calls per engine in the two-engine runs.
MaxGen == 3
\* Largest invader_size passed to the constructor.
MaxInvaderSize == 6
\* Largest side, past MaxN, the clusters condition is called with.
MaxClustersN == 24
\* Largest side of a non-random grid in the runs with a rolled grid.
MaxShiftN == 5
\* step() calls per engine in the runs with a rolled grid.
MaxShiftGen == 1
\* Largest radius of the lone cooperator cluster of the cluster runs.
MaxRadius == 3
\* Largest side of the grid in the cluster runs.
MaxFieldN == 9
\* The side of the 'clusters' run of the script (sh_expansion).
ExpansionSide == 150

\* ---------------------------------------------------------------- inputs
GameTypes == {"prisoner_clusters", "hawk_dove_spirals", "stag_hunt"}
Conditions == {"random", "split", "invader", "clusters"}
\* initial_coop_density in tenths: -0.5, 0, 0.5, 1, 1.5
Densities == {-5, 0, 5, 10, 15}
\* Names _get_payoffs and _initialize_grid have no branch for.
UnknownGameTypes == {"rock_paper_scissors"}
UnknownConditions == {"checkerboard"}

\* The constructor calls of the model.  Up to side MaxRandomN every
\* condition is called with every density (the random condition then draws
\* every grid); above it the deterministic conditions are called with the
\* default density.  invader_size keeps its default 5 outside 'invader'.
\* Calls with a name the code does not know are made up to side MaxRandomN.
\* Past MaxN the clusters condition is called as the script calls it, for
\* the Stag Hunt: up to side MaxClustersN, where the disks wrap around the
\* torus, and with the script's side, where they do not.
Calls ==
    { [grid_size |-> n, game_type |-> g, initial_condition |-> c,
       initial_coop_density |-> d, invader_size |-> 5] :
         n \in -1..MaxRandomN, g \in GameTypes, c \in Conditions, d \in Densities }
    \cup
    { [grid_size |-> n, game_type |-> g, initial_condition |-> c,
       initial_coop_density |-> 5, invader_size |-> 5] :
         n \in -1..MaxN, g \in GameTypes, c \in {"split", "clusters"} }
    \cup
    { [grid_size |-> n, game_type |-> g, initial_condition |-> "invader",
       initial_coop_density |-> 5, invader_size |-> s] :
         n \in -1..MaxN, g \in GameTypes, s \in 1..MaxInvaderSize }
    \cup
    { [grid_size |-> n, game_type |-> g, initial_condition |-> c,
       initial_coop_density |-> 5, invader_size |-> 5] :
         n \in -1..MaxRandomN, g \in UnknownGameTypes,
         c \in Conditions \cup UnknownConditions }
    \cup
    { [grid_size |-> n, game_type |-> g, initial_condition |-> c,
       initial_coop_density |-> d, invader_size |-> 5] :
         n \in -1..MaxRandomN, g \in GameTypes, c \in UnknownConditions,
         d \in Densities }
    \cup
    { [grid_size |-> n, game_type |-> "stag_hunt", initial_condition |-> "clusters",
       initial_coop_density |-> 5, invader_size |-> 5] :
         n \in ((MaxN + 1)..MaxClustersN) \cup {ExpansionSide} }

\* ---------------------------------------------------------------- helpers
Cells(n) == (0..(n - 1)) \X (0..(n - 1))

\* Python's a % n for n > 0: the result has the sign of n.
PyMod(a, n) == a % n

\* The [-1, 0, 1] of the scans.
Offsets == <<-1, 0, 1>>

\* The k-th (1..9) offset pair of "for dy in [-1,0,1]: for dx in [-1,0,1]".
ScanDy(k) == Offsets[((k - 1) \div 3) + 1]
ScanDx(k) == Offsets[((k - 1) % 3) + 1]

\* The indices a numpy slice start:stop selects on an axis of length len.
SliceStart(start, len) ==
    IF start < 0 THEN (IF start + len < 0 THEN 0 ELSE start + len)
    ELSE IF start > len THEN len ELSE start

SliceIndices(start, stop, len) ==
    { i \in 0..(len - 1) : SliceStart(start, len) <= i /\ i < SliceStart(stop, len) }

\* ---------------------------------------------------------------- payoffs
KnownGameType(g) == g \in GameTypes

\* GetPayoffs with the Prisoner's Dilemma entries R and P exchanged (mutual
\* defection paying 3 and mutual cooperation 1).
GetPayoffsMisordered(g) ==
    IF g = "prisoner_clusters"
    THEN [R |-> 20, T |-> 62, P |-> 60, S |-> 0]
    ELSE IF g = "hawk_dove_spirals"
    THEN ("V/2" :> 35) @@ ("V" :> 70) @@ ("0" :> 0) @@ ("(V-C)/2" :> -10)
    ELSE [Stag |-> 80, Hare |-> 50, Sucker |-> 0, BothHare |-> 30]

GetPayoffs(g) ==
    IF g = "prisoner_clusters"
    THEN [R |-> 60, T |-> 62, P |-> 20, S |-> 0]
    ELSE IF g = "hawk_dove_spirals"
    THEN ("V/2" :> 35) @@ ("V" :> 70) @@ ("0" :> 0) @@ ("(V-C)/2" :> -10)
    ELSE [Stag |-> 80, Hare |-> 50, Sucker |-> 0, BothHare |-> 30]

\* ---------------------------------------------------------------- grids
\* np.random.choice([COOPERATE, DEFECT], p=[density, 1 - density]): the
\* values a cell can draw.
RandomChoices(density) ==
    {v \in {COOPERATE, DEFECT} :
        IF v = COOPERATE THEN density > 0 ELSE 10 - density > 0}

\* The grids np.random.choice can return, as far as the model enumerates
\* them: every cell draws independently.
Draws(n, density) ==
    { g \in [Cells(n) -> RandomChoices(density)] :
        \/ Cardinality({c \in Cells(n) : g[c] = COOPERATE}) <= MaxMinority
        \/ Cardinality({c \in Cells(n) : g[c] = DEFECT}) <= MaxMinority }

\* SplitGrid with the slice on the first axis: grid[n // 2:, :] = DEFECT.
SplitGridRows(n) ==
    [c \in Cells(n) |->
        IF c[1] \in SliceIndices(n \div 2, n, n) THEN DEFECT ELSE COOPERATE]

SplitGrid(n) ==
    [c \in Cells(n) |->
        IF c[2] \in SliceIndices(n \div 2, n, n) THEN DEFECT ELSE COOPERATE]

InvaderGrid(n, invader_size) ==
    LET center == n \div 2
        half_size == invader_size \div 2
        block == SliceIndices(center - half_size, center + half_size + 1, n)
    IN  [c \in Cells(n) |->
            IF c[1] \in block /\ c[2] \in block THEN DEFECT ELSE COOPERATE]

centers == << <<30, 30>>, <<120, 40>>, <<70, 100>>, <<40, 120>> >>

\* DiskOffsets with the circle test strict (distance < 8).
DiskOffsetsOpen == { d \in (-8..8) \X (-8..8) : d[1] * d[1] + d[2] * d[2] < 64 }

\* The (dy, dx) of the two range(-8, 9) loops that pass the circle test.
DiskOffsets == { d \in (-8..8) \X (-8..8) : d[1] * d[1] + d[2] * d[2] <= 64 }

\* The cells the stamping loops write.  Every write stores COOPERATE, so the
\* grid they leave does not depend on the order of the writes.
StampedCells(n) ==
    { <<PyMod(centers[k][1] + d[1], n), PyMod(centers[k][2] + d[2], n)>> :
        k \in 1..Len(centers), d \in DiskOffsets }

ClustersGrid(n) ==
    LET written == StampedCells(n)
    IN  [c \in Cells(n) |-> IF c \in written THEN COOPERATE ELSE DEFECT]

\* AllocatesGrid with the array created ahead of the branches on the
\* condition name (grid = np.zeros(...) as the first statement).
AllocatesGridFirst(n, condition, density) == n >= 0

\* _initialize_grid: whether np.random.choice, np.zeros or np.full has
\* returned an array by the time the method returns or raises.
AllocatesGrid(n, condition, density) ==
    IF condition = "random"
    THEN 0 <= density /\ density <= 10 /\ n >= 0
    ELSE IF condition \in {"split", "invader", "clusters"}
    THEN n >= 0
    ELSE FALSE

\* _initialize_grid: the exception it ends in ("none" when it returns) and
\* the grids it can return.
InitializeGrid(n, condition, density, invader_size) ==
    IF condition = "random"
    THEN IF density < 0 \/ density > 10
         THEN [err |-> "ValueError: probabilities are not non-negative", grids |-> {}]
         ELSE IF n < 0
         THEN [err |-> "ValueError: negative dimensions are not allowed", grids |-> {}]
         ELSE [err |-> "none", grids |-> Draws(n, density)]
    ELSE IF condition \in {"split", "invader", "clusters"} /\ n < 0
    THEN [err |-> "ValueError: negative dimensions are not allowed", grids |-> {}]
    ELSE IF condition = "split"
    THEN [err |-> "none", grids |-> {SplitGrid(n)}]
    ELSE IF condition = "invader"
    THEN [err |-> "none", grids |-> {InvaderGrid(n, invader_size)}]
    ELSE IF condition = "clusters"
    THEN IF n = 0
         THEN [err |-> "ZeroDivisionError: integer modulo by zero", grids |-> {}]
         ELSE [err |-> "none", grids |-> {ClustersGrid(n)}]
    ELSE [err |-> "ValueError: Invalid initial condition", grids |-> {}]

\* ---------------------------------------------------------------- fitness
\* PayoffTerm with the two off-diagonal entries exchanged (a cooperator
\* facing a defector collects the defector's payoff, and the reverse).
PayoffTermSwapped(g, p, my_strategy, neighbor_strategy) ==
    IF g = "prisoner_clusters"
    THEN IF my_strategy = COOPERATE
         THEN (IF neighbor_strategy = COOPERATE THEN p["R"] ELSE p["T"])
         ELSE (IF neighbor_strategy = COOPERATE THEN p["S"] ELSE p["P"])
    ELSE IF g = "hawk_dove_spirals"
    THEN IF my_strategy = COOPERATE
         THEN (IF neighbor_strategy = COOPERATE THEN p["V/2"] ELSE p["V"])
         ELSE (IF neighbor_strategy = COOPERATE THEN p["0"] ELSE p["(V-C)/2"])
    ELSE IF my_strategy = COOPERATE
         THEN (IF neighbor_strategy = COOPERATE THEN p["Stag"] ELSE p["Hare"])
         ELSE (IF neighbor_strategy = COOPERATE THEN p["Sucker"] ELSE p["BothHare"])

\* The payoff one interaction adds to score.
PayoffTerm(g, p, my_strategy, neighbor_strategy) ==
    IF g = "prisoner_clusters"
    THEN IF my_strategy = COOPERATE
         THEN (IF neighbor_strategy = COOPERATE THEN p["R"] ELSE p["S"])
         ELSE (IF neighbor_strategy = COOPERATE THEN p["T"] ELSE p["P"])
    ELSE IF g = "hawk_dove_spirals"
    THEN IF my_strategy = COOPERATE
         THEN (IF neighbor_strategy = COOPERATE THEN p["V/2"] ELSE p["0"])
         ELSE (IF neighbor_strategy = COOPERATE THEN p["V"] ELSE p["(V-C)/2"])
    ELSE IF g = "stag_hunt"
    THEN IF my_strategy = COOPERATE
         THEN (IF neighbor_strategy = COOPERATE THEN p["Stag"] ELSE p["Sucker"])
         ELSE (IF neighbor_strategy = COOPERATE THEN p["Hare"] ELSE p["BothHare"])
    ELSE 0

\* Python's min(max(i, 0), n - 1).
Clamp(i, n) == IF i < 0 THEN 0 ELSE IF i > n - 1 THEN n - 1 ELSE i

\* NeighbourCell with the indices clamped to the grid instead of wrapped.
NeighbourCellClamped(cy, cx, k, n) ==
    <<Clamp(cy + ScanDy(k), n), Clamp(cx + ScanDx(k), n)>>

\* NeighbourCell with the offsets doubled (the scans over [-2, 0, 2]).
NeighbourCellFar(cy, cx, k, n) ==
    <<PyMod(cy + 2 * ScanDy(k), n), PyMod(cx + 2 * ScanDx(k), n)>>

\* The cell the scan reads at offset pair k of cell (cy, cx).
NeighbourCell(cy, cx, k, n) == <<PyMod(cy + ScanDy(k), n), PyMod(cx + ScanDx(k), n)>>

\* _get_fitness after the first k offset pairs of its scan: the score, and
\* the cells read as neighbours, in order.  Offset pair 5 is (0, 0), which
\* the scan skips.
RECURSIVE ScoreAfter(_, _, _, _, _, _, _)
ScoreAfter(cy, cx, current_grid, n, g, p, k) ==
    IF k = 0 THEN 0
    ELSE IF ScanDy(k) = 0 /\ ScanDx(k) = 0
    THEN ScoreAfter(cy, cx, current_grid, n, g, p, k - 1)
    ELSE ScoreAfter(cy, cx, current_grid, n, g, p, k - 1)
           + PayoffTerm(g, p, current_grid[<<cy, cx>>],
                        current_grid[NeighbourCell(cy, cx, k, n)])

RECURSIVE ReadsAfter(_, _, _, _)
ReadsAfter(cy, cx, n, k) ==
    IF k = 0 THEN <<>>
    ELSE IF ScanDy(k) = 0 /\ ScanDx(k) = 0
    THEN ReadsAfter(cy, cx, n, k - 1)
    ELSE Append(ReadsAfter(cy, cx, n, k - 1), NeighbourCell(cy, cx, k, n))

GetFitness(cy, cx, current_grid, n, g, p) == ScoreAfter(cy, cx, current_grid, n, g, p, 9)

\* np.array(...): the values of f computed once and stored.
Array(f) == f @@ <<>>

\* fitness_grid = np.array([[_get_fitness(y, x, self.grid) for x ...] for y ...])
FitnessGrid(current_grid, n, g, p) ==
    Array([c \in Cells(n) |-> GetFitness(c[1], c[2], current_grid, n, g, p)])

\* Per cell, the cells that computation read as neighbours.
FitnessReads(n) == [c \in Cells(n) |-> ReadsAfter(c[1], c[2], n, 9)]

\* ---------------------------------------------------------------- update
\* Exceeds with max_fitness starting at 0 instead of -inf.
ExceedsFromZero(f, max_fitness) == f > max_fitness.val

\* Exceeds with >= for >: the last of several equal candidates wins.
ExceedsOrEquals(f, max_fitness) == max_fitness.neg_inf \/ f >= max_fitness.val

\* "fitness_grid[ny, nx] > max_fitness", max_fitness starting at -inf.
Exceeds(f, max_fitness) == max_fitness.neg_inf \/ f > max_fitness.val

\* max_fitness and best_strategy of one cell after the first k candidates of
\* its scan; they start at -inf and -1.
RECURSIVE BestAfter(_, _, _, _, _, _)
BestAfter(cy, cx, cur, fit, n, k) ==
    IF k = 0 THEN [neg_inf |-> TRUE, val |-> 0, best_strategy |-> -1]
    ELSE LET before == BestAfter(cy, cx, cur, fit, n, k - 1)
             nb == NeighbourCell(cy, cx, k, n)
         IN  IF Exceeds(fit[nb], before)
             THEN [neg_inf |-> FALSE, val |-> fit[nb], best_strategy |-> cur[nb]]
             ELSE before

BestStrategy(cy, cx, cur, fit, n) == BestAfter(cy, cx, cur, fit, n, 9).best_strategy

\* WriteCell storing the winner's fitness instead of its strategy.
WriteCellFitness(nxt, cy, cx, cur, fit, n) ==
    [nxt EXCEPT ![<<cy, cx>>] = BestAfter(cy, cx, cur, fit, n, 9).val]

\* The body of the two loops for one cell: next_grid[y, x] = best_strategy.
WriteCell(nxt, cy, cx, cur, fit, n) ==
    [nxt EXCEPT ![<<cy, cx>>] = BestStrategy(cy, cx, cur, fit, n)]

\* The two loops over y and x from cell number i = y * n + x on.  The
\* test on the domain of the grid just written is never true for n >= 1; it
\* makes TLC evaluate each write as it is made rather than carry a chain of
\* unevaluated writes as long as the grid has cells.
RECURSIVE UpdateLoop(_, _, _, _, _)
UpdateLoop(i, nxt, cur, fit, n) ==
    IF i >= n * n THEN nxt
    ELSE LET written == WriteCell(nxt, i \div n, i % n, cur, fit, n)
         IN  IF DOMAIN written = {} THEN written
             ELSE UpdateLoop(i + 1, written, cur, fit, n)

\* The grid a whole step() call leaves: the fitness field of the grid, the
\* copy, the loops, the assignment.
StepResult(cur, n, g, p) == UpdateLoop(0, cur, cur, FitnessGrid(cur, n, g, p), n)

\* ---------------------------------------------------------------- actions
NoGrid == <<>>
NoPayoffs == <<>>

\* The object before __init__ has run, and no step() call.
NotConstructed ==
    /\ status = "new"
    /\ err = "none"
    /\ attrs = {}
    /\ allocated = FALSE
    /\ grid_size = 0
    /\ game_type = ""
    /\ payoffs = NoPayoffs
    /\ grid = NoGrid
    /\ pc = "idle"
    /\ y = 0
    /\ x = 0
    /\ fitness_grid = <<>>
    /\ next_grid = NoGrid
    /\ fitness_reads = <<>>
    /\ old_grid = NoGrid
    /\ last_op = "none"
    /\ gen = 0
    /\ twin_grid = NoGrid
    /\ twin_gen = 0
    /\ shift = <<0, 0>>

Init == args \in Calls /\ NotConstructed

\* __init__, lines 50-53, to its return or to the exception that ends it.
ConstructEngine ==
    /\ status = "new"
    /\ grid_size' = args.grid_size
    /\ game_type' = args.game_type
    /\ last_op' = "init"
    /\ IF ~KnownGameType(args.game_type)
       THEN /\ err' = "ValueError: Invalid game type"
            /\ status' = "failed"
            /\ attrs' = {"grid_size", "game_type"}
            /\ allocated' = FALSE
            /\ UNCHANGED <<payoffs, grid>>
       ELSE /\ payoffs' = GetPayoffs(args.game_type)
            /\ allocated' = AllocatesGrid(args.grid_size, args.initial_condition,
                                          args.initial_coop_density)
            /\ LET r == InitializeGrid(args.grid_size, args.initial_condition,
                                       args.initial_coop_density, args.invader_size)
               IN  IF r.err # "none"
                   THEN /\ err' = r.err
                        /\ status' = "failed"
                        /\ attrs' = {"grid_size", "game_type", "payoffs"}
                        /\ UNCHANGED grid
                   ELSE /\ grid' \in r.grids
                        /\ err' = "none"
                        /\ status' = "constructed"
                        /\ attrs' = {"grid_size", "game_type", "payoffs", "grid", "cmap"}
    /\ UNCHANGED <<args, old_grid>>
    /\ UNCHANGED stepvars

Construct == ConstructEngine /\ UNCHANGED twinvars

\* step(), lines 150-155: the fitness field and the copy of the grid.
StepBegin ==
    /\ status = "constructed"
    /\ pc = "idle"
    /\ grid_size <= MaxStepN
    /\ fitness_grid' = FitnessGrid(grid, grid_size, game_type, payoffs)
    /\ fitness_reads' = FitnessReads(grid_size)
    /\ next_grid' = grid
    /\ y' = 0
    /\ x' = 0
    /\ pc' = IF grid_size > 0 THEN "loop" ELSE "assign"
    /\ old_grid' = grid
    /\ UNCHANGED <<args, status, err, attrs, allocated, grid_size, game_type, payoffs, grid,
                   last_op>>
    /\ UNCHANGED twinvars

\* StepCell with next_grid an alias of self.grid (the copy() left out):
\* every write lands in the grid the later passes read.
StepCellInPlace ==
    /\ pc = "loop"
    /\ next_grid' = WriteCell(next_grid, y, x, grid, fitness_grid, grid_size)
    /\ grid' = next_grid'
    /\ IF x + 1 < grid_size
       THEN /\ x' = x + 1
            /\ UNCHANGED <<y, pc>>
       ELSE IF y + 1 < grid_size
       THEN /\ x' = 0
            /\ y' = y + 1
            /\ UNCHANGED pc
       ELSE /\ pc' = "assign"
            /\ UNCHANGED <<y, x>>
    /\ UNCHANGED <<args, status, err, attrs, allocated, grid_size, game_type, payoffs,
                   fitness_grid, fitness_reads, old_grid, last_op>>
    /\ UNCHANGED twinvars

\* StepCell with a loop that starts over at (0, 0) after the last cell
\* instead of ending.
StepCellRestarts ==
    /\ pc = "loop"
    /\ next_grid' = WriteCell(next_grid, y, x, grid, fitness_grid, grid_size)
    /\ IF x + 1 < grid_size
       THEN /\ x' = x + 1
            /\ UNCHANGED <<y, pc>>
       ELSE IF y + 1 < grid_size
       THEN /\ x' = 0
            /\ y' = y + 1
            /\ UNCHANGED pc
       ELSE /\ x' = 0
            /\ y' = 0
            /\ UNCHANGED pc
    /\ UNCHANGED <<args, status, err, attrs, allocated, grid_size, game_type, payoffs, grid,
                   fitness_grid, fitness_reads, old_grid, last_op>>
    /\ UNCHANGED twinvars

\* step(), lines 160-171: one pass of the loop body, for cell (y, x).
StepCell ==
    /\ pc = "loop"
    /\ next_grid' = WriteCell(next_grid, y, x, grid, fitness_grid, grid_size)
    /\ IF x + 1 < grid_size
       THEN /\ x' = x + 1
            /\ UNCHANGED <<y, pc>>
       ELSE IF y + 1 < grid_size
       THEN /\ x' = 0
            /\ y' = y + 1
            /\ UNCHANGED pc
       ELSE /\ pc' = "assign"
            /\ UNCHANGED <<y, x>>
    /\ UNCHANGED <<args, status, err, attrs, allocated, grid_size, game_type, payoffs, grid,
                   fitness_grid, fitness_reads, old_grid, last_op>>
    /\ UNCHANGED twinvars

\* StepEnd that also puts the game back to the constructor's default,
\* 'prisoner_clusters', with its payoff table.
StepEndDefaults ==
    /\ pc = "assign"
    /\ grid' = next_grid
    /\ pc' = "idle"
    /\ y' = 0
    /\ x' = 0
    /\ fitness_grid' = <<>>
    /\ next_grid' = NoGrid
    /\ fitness_reads' = <<>>
    /\ last_op' = "step"
    /\ game_type' = "prisoner_clusters"
    /\ payoffs' = GetPayoffs("prisoner_clusters")
    /\ UNCHANGED <<args, status, err, attrs, allocated, grid_size, old_grid>>
    /\ UNCHANGED twinvars

\* step(), line 173, and the return: the locals are gone.
StepEnd ==
    /\ pc = "assign"
    /\ grid' = next_grid
    /\ pc' = "idle"
    /\ y' = 0
    /\ x' = 0
    /\ fitness_grid' = <<>>
    /\ next_grid' = NoGrid
    /\ fitness_reads' = <<>>
    /\ last_op' = "step"
    /\ UNCHANGED <<args, status, err, attrs, allocated, grid_size, game_type, payoffs, old_grid>>
    /\ UNCHANGED twinvars

Next == Construct \/ StepBegin \/ StepCell \/ StepEnd

Spec == Init /\ [][Next]_vars

\* ------------------------------------------------------- two engines
\* Two engines built by the same constructor call, each stepped by whole
\* step() calls in any interleaving.  The second engine holds its own grid;
\* its grid_size, game_type and payoffs are those of the call, which step()
\* never writes.
TwinCalls ==
    { c \in Calls :
        c.grid_size <= (IF c.initial_condition = "random" THEN MaxTwinN ELSE MaxStepN) }

TwinInit == Init /\ args \in TwinCalls

\* Both constructor calls, the random condition giving both the same draw.
TwinConstruct ==
    /\ ConstructEngine
    /\ IF status' = "constructed"
       THEN twin_grid' \in
               (IF args.initial_condition = "random"
                THEN {grid'}
                ELSE InitializeGrid(args.grid_size, args.initial_condition,
                                    args.initial_coop_density, args.invader_size).grids)
       ELSE twin_grid' = NoGrid
    /\ UNCHANGED <<gen, twin_gen, shift>>

\* One whole step() call of the first engine.
RunStep ==
    /\ status = "constructed"
    /\ gen < MaxGen
    /\ grid' = StepResult(grid, grid_size, game_type, payoffs)
    /\ old_grid' = grid
    /\ gen' = gen + 1
    /\ last_op' = "step"
    /\ UNCHANGED <<args, status, err, attrs, allocated, grid_size, game_type, payoffs,
                   twin_grid, twin_gen, shift>>
    /\ UNCHANGED stepvars

\* TwinStep with the fitness field taken from the first engine's grid (a
\* grid shared between the instances).
TwinStepShared ==
    /\ status = "constructed"
    /\ twin_gen < MaxGen
    /\ twin_grid' = UpdateLoop(0, twin_grid, twin_grid,
                               FitnessGrid(grid, grid_size, game_type, payoffs),
                               grid_size)
    /\ twin_gen' = twin_gen + 1
    /\ UNCHANGED <<args, status, err, attrs, allocated, grid_size, game_type, payoffs, grid,
                   old_grid, last_op, gen, shift>>
    /\ UNCHANGED stepvars

\* One whole step() call of the second engine.
TwinStep ==
    /\ status = "constructed"
    /\ twin_gen < MaxGen
    /\ twin_grid' = StepResult(twin_grid, grid_size, game_type, payoffs)
    /\ twin_gen' = twin_gen + 1
    /\ UNCHANGED <<args, status, err, attrs, allocated, grid_size, game_type, payoffs, grid,
                   old_grid, last_op, gen, shift>>
    /\ UNCHANGED stepvars

TwinNext == TwinConstruct \/ RunStep \/ TwinStep

SpecTwin == TwinInit /\ [][TwinNext]_vars

\* ------------------------------------------------ a rolled second engine
\* np.roll(g, (a, b), axis=(0, 1)) on an n x n grid: the cell at (r, c)
\* moves to ((r + a) % n, (c + b) % n).
Shift(g, a, b, n) ==
    Array([c \in Cells(n) |-> g[<<PyMod(c[1] - a, n), PyMod(c[2] - b, n)>>]])

\* The shifts of an n x n grid (the empty grid has the one shift (0, 0)).
Shifts(n) == IF n >= 1 THEN Cells(n) ELSE {<<0, 0>>}

\* The constructor call, and a second engine of the same call whose grid
\* attribute is then set to the first engine's grid rolled by some shift.
ShiftConstruct ==
    /\ ConstructEngine
    /\ IF status' = "constructed"
       THEN /\ shift' \in Shifts(args.grid_size)
            /\ twin_grid' = Shift(grid', shift'[1], shift'[2], args.grid_size)
       ELSE /\ shift' = <<0, 0>>
            /\ twin_grid' = NoGrid
    /\ UNCHANGED <<gen, twin_gen>>

\* The calls of these runs: random draws up to side MaxTwinN, the other
\* conditions up to side MaxShiftN.
ShiftCalls ==
    { c \in Calls :
        c.grid_size <= (IF c.initial_condition = "random" THEN MaxTwinN ELSE MaxShiftN) }

ShiftInit == Init /\ args \in ShiftCalls

\* A step() call of the first engine, up to MaxShiftGen calls.
ShiftRunStep == gen < MaxShiftGen /\ RunStep

\* A step() call of the second engine.  The engines share nothing, so the
\* order of their calls is immaterial; the second is stepped after the first.
ShiftTwinStep == twin_gen < gen /\ TwinStep

ShiftNext == ShiftConstruct \/ ShiftRunStep \/ ShiftTwinStep

SpecShift == ShiftInit /\ [][ShiftNext]_vars

\* ------------------------------------------- a lone cooperator cluster
\* Distance on the torus of side n between indices i and j.
TorusGap(i, j, n) ==
    LET d == PyMod(i - j, n) IN IF d <= n - d THEN d ELSE n - d

\* The ways "within distance r" is measured on the grid.
Metrics == {"euclidean", "manhattan", "chebyshev"}

WithinDistance(metric, dy, dx, r) ==
    IF metric = "euclidean" THEN dy * dy + dx * dx <= r * r
    ELSE IF metric = "manhattan" THEN dy + dx <= r
    ELSE dy <= r /\ dx <= r

\* The n x n grid that is DEFECT but for the cells within distance r of
\* cell ctr, which are COOPERATE.
LoneCluster(n, ctr, r, metric) ==
    Array([c \in Cells(n) |->
        IF WithinDistance(metric, TorusGap(c[1], ctr[1], n), TorusGap(c[2], ctr[2], n), r)
        THEN COOPERATE ELSE DEFECT])

\* The cluster grids of side n: radius 3 to MaxRadius, the cluster (2r + 1
\* cells across) leaving at least one column and one row of defectors.
ClusterGrids(n) ==
    { LoneCluster(n, ctr, r, m) :
        ctr \in Cells(n), r \in { q \in 3..MaxRadius : 2 * q + 1 < n }, m \in Metrics }

\* Prisoner's Dilemma engines with a random grid at density 0.5, on sides
\* that hold a cluster of radius 3.
ClusterCalls ==
    { [grid_size |-> n, game_type |-> "prisoner_clusters", initial_condition |-> "random",
       initial_coop_density |-> 5, invader_size |-> 5] : n \in 8..MaxFieldN }

ClusterInit == args \in ClusterCalls /\ NotConstructed

\* __init__ for such a call, np.random.choice drawing one of the cluster
\* grids (at density 0.5 every grid can be drawn).
ClusterConstruct ==
    /\ status = "new"
    /\ grid_size' = args.grid_size
    /\ game_type' = args.game_type
    /\ payoffs' = GetPayoffs(args.game_type)
    /\ allocated' = AllocatesGrid(args.grid_size, args.initial_condition,
                                  args.initial_coop_density)
    /\ grid' \in ClusterGrids(args.grid_size)
    /\ err' = "none"
    /\ status' = "constructed"
    /\ attrs' = {"grid_size", "game_type", "payoffs", "grid", "cmap"}
    /\ last_op' = "init"
    /\ UNCHANGED <<args, old_grid>>
    /\ UNCHANGED stepvars
    /\ UNCHANGED twinvars

ClusterNext == ClusterConstruct \/ RunStep

SpecCluster == ClusterInit /\ [][ClusterNext]_vars

\* ---------------------------------------------------------------- claims
Strategies == {COOPERATE, DEFECT}

\* step() has returned and no other step() has begun.
AfterStep == last_op = "step" /\ pc = "idle"

\* The constructor has returned an engine and step() was never called.
AfterInit == last_op = "init" /\ status = "constructed" /\ pc = "idle"

\* The state step() is in when its fitness field has just been computed.
AfterFitness == pc # "idle" /\ y = 0 /\ x = 0

\* Row or column i + d on the torus of side n, d in {-1, 0, 1}: index 0 has
\* n - 1 before it and index n - 1 has 0 after it.
Wrap(i, d, n) ==
    IF i + d < 0 THEN n - 1 ELSE IF i + d > n - 1 THEN 0 ELSE i + d

\* The 9 offset pairs in scan order, the cell itself fifth.
ScanOrder ==
    << <<-1, -1>>, <<-1, 0>>, <<-1, 1>>,
       << 0, -1>>, << 0, 0>>, << 0, 1>>,
       << 1, -1>>, << 1, 0>>, << 1, 1>> >>

Candidate(c, k, n) == <<Wrap(c[1], ScanOrder[k][1], n), Wrap(c[2], ScanOrder[k][2], n)>>

\* The payoff table of the running game, by (own strategy, neighbour's).
TableEntry(my, nb) ==
    IF game_type = "prisoner_clusters"
    THEN IF my = COOPERATE
         THEN (IF nb = COOPERATE THEN payoffs["R"] ELSE payoffs["S"])
         ELSE (IF nb = COOPERATE THEN payoffs["T"] ELSE payoffs["P"])
    ELSE IF game_type = "hawk_dove_spirals"
    THEN IF my = COOPERATE
         THEN (IF nb = COOPERATE THEN payoffs["V/2"] ELSE payoffs["0"])
         ELSE (IF nb = COOPERATE THEN payoffs["V"] ELSE payoffs["(V-C)/2"])
    ELSE IF my = COOPERATE
         THEN (IF nb = COOPERATE THEN payoffs["Stag"] ELSE payoffs["Sucker"])
         ELSE (IF nb = COOPERATE THEN payoffs["Hare"] ELSE payoffs["BothHare"])

\* The sum over the 8 offsets other than (0, 0), by counting the offsets
\* whose wrapped cell cooperates.
TableFitness(g, c, n) ==
    LET coop == Cardinality({k \in (1..9) \ {5} : g[Candidate(c, k, n)] = COOPERATE})
    IN  coop * TableEntry(g[c], COOPERATE) + (8 - coop) * TableEntry(g[c], DEFECT)

TableField(g, n) == Array([c \in Cells(n) |-> TableFitness(g, c, n)])

\* The position in scan order of the first candidate of cell c whose fitness
\* is the maximum over the 9 candidates.
FirstBest(c, fit, n) ==
    CHOOSE k \in 1..9 :
        /\ \A j \in 1..9 : fit[Candidate(c, j, n)] <= fit[Candidate(c, k, n)]
        /\ \A j \in 1..(k - 1) : fit[Candidate(c, j, n)] < fit[Candidate(c, k, n)]

\* C1: every cell of the grid, and of the next_grid a running step() is
\* writing, holds COOPERATE or DEFECT, from construction on and after any
\* number of step() calls; -1 is never written.
C1_Closure ==
    /\ "grid" \in attrs =>
          /\ DOMAIN grid = Cells(grid_size)
          /\ \A c \in Cells(grid_size) : grid[c] \in Strategies
    /\ pc # "idle" => \A c \in Cells(grid_size) : next_grid[c] \in Strategies

\* A step() has rewritten a grid holding both strategies into another grid.
C1_Witness ==
    /\ AfterStep
    /\ grid # old_grid
    /\ \E c, d \in Cells(grid_size) : grid[c] = COOPERATE /\ grid[d] = DEFECT

\* C2: after step(), every cell holds the strategy the pre-step grid had at
\* the first candidate, in scan order, whose fitness is the maximum of the
\* cell's 9 wrapped candidates.
C2_BestTakesOver ==
    AfterStep =>
        LET fit == TableField(old_grid, grid_size)
        IN  \A c \in Cells(grid_size) :
                grid[c] = old_grid[Candidate(c, FirstBest(c, fit, grid_size), grid_size)]

\* A step() in which some cell took the strategy of a neighbour scanned
\* before it, of the other strategy, whose fitness only equalled its own.
C2_Witness ==
    /\ AfterStep
    /\ LET fit == TableField(old_grid, grid_size)
       IN  \E c \in Cells(grid_size) :
             LET k == FirstBest(c, fit, grid_size)
                 w == Candidate(c, k, grid_size)
             IN  /\ k < 5
                 /\ fit[w] = fit[c]
                 /\ old_grid[w] # old_grid[c]
                 /\ grid[c] = old_grid[w]

\* Cell c comes before cell (y, x) in the order of the two loops.
Written(c) == pc = "assign" \/ c[1] < y \/ (c[1] = y /\ c[2] < x)

\* The grid that updating every cell at once from grid g gives.
Simultaneous(g, n) ==
    LET fit == FitnessGrid(g, n, game_type, payoffs)
    IN  [c \in Cells(n) |-> BestStrategy(c[1], c[2], g, fit, n)]

\* C3: while the loop of step() runs, self.grid is still the grid step()
\* began with and next_grid differs from it only in cells the loop has
\* passed; the grid step() leaves is the one obtained by updating all cells
\* at once from the grid it began with.
C3_SynchronousUpdate ==
    /\ pc # "idle" =>
          /\ grid = old_grid
          /\ \A c \in Cells(grid_size) : ~Written(c) => next_grid[c] = old_grid[c]
    /\ AfterStep => grid = Simultaneous(old_grid, grid_size)

\* The loop is past a cell whose new strategy differs from its old one,
\* with cells that read it as a candidate still to come.
C3_Witness ==
    /\ pc = "loop"
    /\ \E c \in Cells(grid_size) : Written(c) /\ next_grid[c] # grid[c]

\* C4: the fitness field step() computes holds, for every cell, the sum
\* over the 8 offsets other than (0, 0) of the payoff-table entry selected by
\* the cell's strategy and the strategy of the wrapped cell at that offset,
\* and computing it leaves the grid as it was.
C4_FitnessValue ==
    AfterFitness =>
        /\ grid = old_grid
        /\ DOMAIN fitness_grid = Cells(grid_size)
        /\ \A c \in Cells(grid_size) :
              fitness_grid[c] = TableFitness(grid, c, grid_size)

\* A fitness field computed for a grid where a cooperator and a defector
\* each face both strategies.
C4_Witness ==
    /\ AfterFitness
    /\ \E c, d \in Cells(grid_size) :
          /\ grid[c] = COOPERATE
          /\ grid[d] = DEFECT
          /\ \A e \in {c, d} :
                \E j, k \in (1..9) \ {5} :
                    /\ grid[Candidate(e, j, grid_size)] = COOPERATE
                    /\ grid[Candidate(e, k, grid_size)] = DEFECT

\* The cells the claim names as neighbours of cell c, in scan order.
WrappedNeighbours(c, n) ==
    [i \in 1..8 |-> Candidate(c, IF i < 5 THEN i ELSE i + 1, n)]

\* The eight neighbours the specification lists for cell (0, 0) at N = 5.
Corner5 ==
    << <<4, 4>>, <<4, 0>>, <<4, 1>>, <<0, 4>>, <<0, 1>>, <<1, 4>>, <<1, 0>>, <<1, 1>> >>

ReadsWrapped ==
    /\ \A c \in Cells(grid_size) : fitness_reads[c] = WrappedNeighbours(c, grid_size)
    /\ grid_size = 5 => fitness_reads[<<0, 0>>] = Corner5

SelfNeverRead ==
    \A c \in Cells(grid_size) : \A i \in 1..8 : fitness_reads[c][i] # c

\* C5 as stated: for every N >= 1 the fitness computation reads the 8
\* wrapped cells and never the cell itself.
C5_Original == (AfterFitness /\ grid_size >= 1) => (ReadsWrapped /\ SelfNeverRead)

\* C5 as amended: for every N >= 1 the cells read as neighbours are the 8
\* cells at offsets -1, 0, 1 taken modulo N; for N >= 2 the cell itself is
\* never among them, and for N = 1 all eight reads are the cell itself.
C5_ToroidalNeighbours ==
    (AfterFitness /\ grid_size >= 1) =>
        /\ ReadsWrapped
        /\ grid_size >= 2 => SelfNeverRead
        /\ grid_size = 1 => \A i \in 1..8 : fitness_reads[<<0, 0>>][i] = <<0, 0>>

\* The fitness field of a 5 x 5 grid has been computed.
C5_Witness == AfterFitness /\ grid_size = 5 /\ Len(fitness_reads[<<0, 0>>]) = 8

Uniform(g, n) == \E v \in Strategies : \A c \in Cells(n) : g[c] = v

\* C6: a step() that begins with every cell holding the same strategy
\* leaves the grid as it was (hence uniform with that strategy).
C6_UniformFixedPoint ==
    (AfterStep /\ grid_size >= 1 /\ Uniform(old_grid, grid_size)) => grid = old_grid

\* A step() of the Hawk-Dove game has run on an all-DEFECT grid, where every
\* fitness is negative.
C6_Witness ==
    /\ AfterStep
    /\ grid_size >= 2
    /\ game_type = "hawk_dove_spirals"
    /\ \A c \in Cells(grid_size) : old_grid[c] = DEFECT

InvaderCall ==
    /\ AfterInit
    /\ args.initial_condition = "invader"
    /\ 1 <= args.invader_size
    /\ args.invader_size <= grid_size

\* The DEFECT cells are a square block of side `size` around the centre
\* (N // 2, N // 2): B x B for size consecutive indices B that include the
\* centre index.
DefectBlock(size) ==
    \E lo \in 0..(grid_size - 1) :
        LET B == lo..(lo + size - 1)
        IN  /\ lo + size - 1 <= grid_size - 1
            /\ (grid_size \div 2) \in B
            /\ \A c \in Cells(grid_size) :
                  grid[c] = (IF c[1] \in B /\ c[2] \in B THEN DEFECT ELSE COOPERATE)

\* C8: for every N and every positive invader size not larger than N, odd
\* or even, the initial grid has DEFECT exactly on a square block around
\* (N // 2, N // 2) spanning `size` cells in each dimension.
C8_InvaderBlock == InvaderCall => DefectBlock(args.invader_size)

\* C9: the grid 'split' produces has COOPERATE exactly in columns
\* 0 .. floor(N / 2) - 1 and DEFECT in the others, in every row.
C9_SplitInit ==
    (AfterInit /\ args.initial_condition = "split") =>
        \A c \in Cells(grid_size) :
            grid[c] = (IF c[2] <= (grid_size \div 2) - 1 THEN COOPERATE ELSE DEFECT)

\* 'split' has produced the 10 x 10 grid: columns 0-4 COOPERATE, 5-9 DEFECT.
C9_Witness ==
    /\ AfterInit
    /\ args.initial_condition = "split"
    /\ grid_size = 10
    /\ \A r \in 0..9 :
          /\ \A k \in 0..4 : grid[<<r, k>>] = COOPERATE
          /\ \A k \in 5..9 : grid[<<r, k>>] = DEFECT

\* The constructor call passed a non-positive side or a density outside
\* [0, 1].
InvalidParameter ==
    \/ args.grid_size <= 0
    \/ args.initial_coop_density < 0
    \/ args.initial_coop_density > 10

\* C10: a constructor call with a non-positive grid size or a density
\* outside [0, 1] ends in an error for every initial condition and game;
\* it never yields an engine.
C10_InvalidRejected == (InvalidParameter /\ status # "new") => status = "failed"

\* The two errors the constructor raises for a name it does not know.
InvalidConfiguration ==
    {"ValueError: Invalid game type", "ValueError: Invalid initial condition"}

\* C11: a constructor call whose game type is not one of the three names or
\* whose initial condition is not one of the four names ends in the
\* ValueError raised for the name, with no grid array allocated and no grid
\* attribute set; a call with both names known never ends in that error.
C11_InvalidConfiguration ==
    status # "new" =>
        IF args.game_type \in GameTypes /\ args.initial_condition \in Conditions
        THEN err \notin InvalidConfiguration
        ELSE /\ status = "failed"
             /\ err \in InvalidConfiguration
             /\ ~allocated
             /\ "grid" \notin attrs
             /\ grid = NoGrid

\* A call with a known game and an unknown initial condition for a positive
\* side has failed, after the payoff table was stored.
C11_Witness ==
    /\ status = "failed"
    /\ args.grid_size >= 1
    /\ args.game_type \in GameTypes
    /\ args.initial_condition \notin Conditions
    /\ err = "ValueError: Invalid initial condition"
    /\ attrs = {"grid_size", "game_type", "payoffs"}

\* C13: whatever an engine does after its construction, payoffs, game_type
\* and grid_size keep their values and no attribute is added or removed;
\* the grid stays a grid_size x grid_size array.  Only the contents of the
\* grid (and the locals of step()) change.
C13_StepFrame ==
    [][status = "constructed" =>
          /\ payoffs' = payoffs
          /\ game_type' = game_type
          /\ grid_size' = grid_size
          /\ attrs' = attrs
          /\ status' = status
          /\ DOMAIN grid' = Cells(grid_size)]_vars

\* A step() of a Stag Hunt engine has changed the grid and the engine still
\* holds the Stag Hunt table.
C13_Witness ==
    /\ AfterStep
    /\ grid # old_grid
    /\ game_type = "stag_hunt"
    /\ payoffs = GetPayoffs("stag_hunt")
    /\ DOMAIN grid = Cells(grid_size)

\* Every index step() uses for cell (cy, cx) is inside the arrays.
IndicesInRange(cy, cx) ==
    /\ cy \in 0..(grid_size - 1)
    /\ cx \in 0..(grid_size - 1)
    /\ \A k \in 1..9 :
          NeighbourCell(cy, cx, k, grid_size) \in DOMAIN grid \cap DOMAIN fitness_grid

\* An engine built with a positive side (names known, or it would not be
\* built) that is within the sides the model steps.
ValidEngine == status = "constructed" /\ grid_size >= 1 /\ grid_size <= MaxStepN

\* The loop passes a running step() still has to make.
Remaining ==
    IF pc = "loop" THEN grid_size * grid_size - (y * grid_size + x) ELSE 0

\* C14: in every state of an engine built with N >= 1 and known names no
\* error is recorded and step() is not stuck: when no call is running,
\* step() can be called; a running loop stands at a cell whose indices, and
\* those of its nine candidates, are inside the arrays (so the pass raises
\* nothing), and every pass leaves fewer passes to make; after the last
\* pass the assignment can be made, which ends the call.
C14_StepCompletes ==
    /\ [](ValidEngine =>
            /\ err = "none"
            /\ pc \in {"idle", "loop", "assign"}
            /\ pc = "idle" => ENABLED StepBegin
            /\ pc = "loop" =>
                  (IndicesInRange(y, x) /\ Remaining \in 1..(grid_size * grid_size))
            /\ pc = "assign" => ENABLED StepEnd)
    /\ [][(ValidEngine /\ pc # "idle") =>
             /\ Remaining' < Remaining \/ (pc = "assign" /\ pc' = "idle")
             /\ status' = "constructed"
             /\ err' = "none"]_vars

\* A second step() call has reached the last cell of its loop.
C14_Witness ==
    /\ ValidEngine
    /\ last_op = "step"
    /\ pc = "loop"
    /\ grid_size >= 3
    /\ y = grid_size - 1
    /\ x = grid_size - 1

\* The strategies the pre-step grid holds in the 3 x 3 wrapped
\* neighbourhood of cell c, the cell included.
HeldNearby(c) == { old_grid[Candidate(c, k, grid_size)] : k \in 1..9 }

\* The strategies a grid holds anywhere.
Present(g) == { g[c] : c \in DOMAIN g }

\* C17: after step(), every cell holds a strategy that a cell of its 3 x 3
\* wrapped neighbourhood held before the step; a cell whose neighbourhood
\* held one strategy only keeps it; and the grid holds no strategy the
\* pre-step grid did not hold (so, step after step, a strategy that has
\* vanished stays away).
C17_Locality ==
    AfterStep =>
        /\ \A c \in Cells(grid_size) :
              /\ grid[c] \in HeldNearby(c)
              /\ HeldNearby(c) = {old_grid[c]} => grid[c] = old_grid[c]
        /\ Present(grid) \subseteq Present(old_grid)

\* A step() on a grid of side at least 5 changed some cell while another
\* cell, its neighbourhood uniform, had a cell of the other strategy two
\* steps away.
C17_Witness ==
    /\ AfterStep
    /\ grid_size >= 5
    /\ \E c, d \in Cells(grid_size) :
          /\ grid[c] # old_grid[c]
          /\ HeldNearby(d) = {old_grid[d]}
          /\ old_grid[<<Wrap(Wrap(d[1], 1, grid_size), 1, grid_size), d[2]>>] # old_grid[d]

\* The four centres, as (cy, cx).
FourCentres == { <<30, 30>>, <<120, 40>>, <<70, 100>>, <<40, 120>> }

\* Cell c is reached from one of the four centres by offsets dy, dx in
\* -8..8 with dy*dy + dx*dx <= 64, rows and columns taken modulo n.
InWrappedDisk(c, n) ==
    \E ctr \in FourCentres : \E dy \in -8..8 :
        /\ (ctr[1] + dy) % n = c[1]
        /\ \E dx \in -8..8 : dy * dy + dx * dx <= 64 /\ (ctr[2] + dx) % n = c[2]

\* C15: for every side N >= 1 the grid 'clusters' produces is an N x N
\* grid whose cell (y, x) is COOPERATE exactly when it lies in the wrapped
\* disk of radius 8 of one of the four centres, and DEFECT otherwise; the
\* stamping loops write only cells with both indices in 0..N-1.
C15_ClustersInit ==
    (AfterInit /\ args.initial_condition = "clusters" /\ grid_size >= 1) =>
        /\ DOMAIN grid = Cells(grid_size)
        /\ StampedCells(grid_size) \subseteq Cells(grid_size)
        /\ \A c \in Cells(grid_size) :
              grid[c] = (IF InWrappedDisk(c, grid_size) THEN COOPERATE ELSE DEFECT)

\* 'clusters' has produced a grid on a torus too small for the centres
\* (side below 120, so the stamps wrap) that holds both strategies.
C15_Witness ==
    /\ AfterInit
    /\ args.initial_condition = "clusters"
    /\ grid_size < 120
    /\ \E c, d \in Cells(grid_size) : grid[c] = COOPERATE /\ grid[d] = DEFECT

\* C16: an engine whose starting grid is the first engine's grid rolled by
\* (a, b) rows and columns holds, whenever both have completed the same
\* number of step() calls, the first engine's grid rolled by (a, b): step()
\* commutes with every cyclic shift, for every side, game and grid.
C16_ShiftEquivariance ==
    (status = "constructed" /\ gen = twin_gen) =>
        twin_grid = Shift(grid, shift[1], shift[2], grid_size)

\* Both engines have made a step() call that changed the grid, the second
\* engine's grid being rolled in rows and columns and different from the
\* first engine's.
C16_Witness ==
    /\ status = "constructed"
    /\ gen = 1
    /\ twin_gen = 1
    /\ grid_size >= 3
    /\ shift[1] # 0
    /\ shift[2] # 0
    /\ grid # old_grid
    /\ twin_grid # grid
    /\ twin_grid = Shift(grid, shift[1], shift[2], grid_size)

\* C12: a Prisoner's Dilemma engine (R = 3, T = 3.1, P = 1, S = 0) started
\* on a grid that is DEFECT but for one filled cooperator cluster of radius
\* at least 3 that does not wrap onto itself holds at least one COOPERATE
\* cell after each of its step() calls, as far as the runs go.
C12_ClusterPersists ==
    (status = "constructed" /\ gen >= 1) => \E c \in Cells(grid_size) : grid[c] = COOPERATE

\* A third step() call has returned with cooperators and defectors both on
\* the grid.
C12_Witness ==
    /\ status = "constructed"
    /\ game_type = "prisoner_clusters"
    /\ gen >= 3
    /\ \E c, d \in Cells(grid_size) : grid[c] = COOPERATE /\ grid[d] = DEFECT

====
